---- MODULE Spec2Model ----
(***************************************************************************)
(* Attention-pattern service of 2son1a/information_flow.                   *)
(*                                                                         *)
(*   - AttentionPatternExtractor (backend/attention/model.py, the two      *)
(*     revisions kept under .history): get_attention_patterns and          *)
(*     process_text, which flatten the captured attention into edges.      *)
(*   - the /process handler and the module-level model_registry of         *)
(*     backend/attention/api.py.                                           *)
(*                                                                         *)
(* Python indices are kept 0-based: a matrix is a function                 *)
(* [0..n-1 -> [0..n-1 -> Nat]], a flattened matrix a function on 0..n*n-1. *)
(* Token lists and the edge list are sequences.  Attention weights are     *)
(* floats in the program; here a weight is 0 or a positive code that is    *)
(* different for every (layer, head, row, column) of the captured tensor,  *)
(* so that a wrong row, column, head or layer shows in the value.          *)
(***************************************************************************)
EXTENDS Integers, Sequences, FiniteSets, TLC

\* ------------------------------------------------------------------ bounds
MaxTokens == 2
MaxLayers == 2
MaxHeads == 2
MaxRequests == 3

\* ------------------------------------------------------- external inputs
\* The boundary token HookedTransformer.to_str_tokens prepends.
BOS == "<|endoftext|>"

Vocab == {"a", "b"}

\* A text, as the tokens the tokenizer cuts it into (boundary token excluded).
Texts == UNION {[1..n -> Vocab] : n \in 0..MaxTokens}

\* What the forward pass hands to the hook: "causal" is already masked by the
\* model (zero above the diagonal), "dense" is not.
Activations == {"causal", "dense"}

\* The two revisions of backend/attention/model.py.
Revisions == {"20250308202556", "20250309130918"}

Range0(n) == 0..(n - 1)

\* hook_pattern activation of layer l after squeeze(0): one (S x S) matrix per
\* head, [query row, key column].
Activation(act, S, H, l) ==
  [h \in Range0(H) |->
    [q \in Range0(S) |->
      [k \in Range0(S) |->
        IF act = "causal" /\ k > q THEN 0
        ELSE 1 + k + S * (q + S * (h + H * l))]]]

\* ------------------------------------------------- model.py: tokenization
\* to_str_tokens(text): the tokenizer prepends the boundary token.
to_str_tokens(text) == <<BOS>> \o text

\* ------------------------------------------------- model.py: save_pattern
Dim(m) == Cardinality(DOMAIN m)

\* pattern[:, 1:, 1:]
TrimBOS_RowsOnly(pattern) ==
  [h \in DOMAIN pattern |->
    [i \in Range0(Dim(pattern[h]) - 1) |-> pattern[h][i + 1]]]

TrimBOS(pattern) ==
  [h \in DOMAIN pattern |->
    [i \in Range0(Dim(pattern[h]) - 1) |->
      [j \in Range0(Dim(pattern[h]) - 1) |-> pattern[h][i + 1][j + 1]]]]

\* np.tril(m)
tril(m) == [i \in DOMAIN m |-> [j \in DOMAIN m[i] |-> IF j <= i THEN m[i][j] ELSE 0]]

\* The hook: revision 20250309130918 trims the boundary token and masks,
\* revision 20250308202556 stores the activation as captured.
save_pattern(rv, activation) ==
  IF rv = "20250309130918"
  THEN LET pattern == TrimBOS(activation)
       IN  [h \in DOMAIN pattern |-> tril(pattern[h])]
  ELSE activation

\* layer_pattern[head_idx].flatten().tolist()   (row-major)
flatten(m) ==
  LET n == Dim(m)
  IN  [x \in Range0(n * n) |-> m[x \div n][x % n]]

\* detect_head(self.model, layer_idx, head_idx): the value stored in head_types.
detect_head(layer_idx, head_idx) ==
  IF (layer_idx + head_idx) % 2 = 0 THEN "previous_token_head" ELSE "induction_head"

\* -------------------------------------- model.py: get_attention_patterns
\* self is [n_layers, n_heads].  fwd_ok: run_with_hooks returns; detect_ok:
\* detect_head returns.  Either one raising leaves get_attention_patterns by
\* the exception.
get_attention_patterns(rv, self, text, act, fwd_ok, detect_ok) ==
  LET tokens_list == to_str_tokens(text)
      S == Len(tokens_list)
      patterns == [l \in Range0(self.n_layers) |->
                     save_pattern(rv, Activation(act, S, self.n_heads, l))]
      layer_attentions ==
        [layer_idx \in Range0(self.n_layers) |->
          [layer |-> layer_idx,
           heads |-> [head_idx \in Range0(self.n_heads) |->
                        IF rv = "20250309130918"
                        THEN patterns[layer_idx][head_idx]
                        ELSE flatten(patterns[layer_idx][head_idx])]]]
      pairs == Range0(self.n_layers) \X Range0(self.n_heads)
  IN  IF ~fwd_ok THEN [raised |-> TRUE]
      ELSE IF rv = "20250309130918"
      THEN IF ~detect_ok /\ pairs # {} THEN [raised |-> TRUE]
           ELSE [raised |-> FALSE,
                 tokens |-> Tail(tokens_list),
                 layerAttentions |-> layer_attentions,
                 headTypes |-> [p \in pairs |-> detect_head(p[1], p[2])]]
      ELSE [raised |-> FALSE,
            tokens |-> tokens_list,
            layerAttentions |-> layer_attentions,
            headTypes |-> <<>>]

\* ----------------------------------------------- model.py: process_text
\* One call of process_text: its inputs, its position and its locals.
NewCall(self, text, act, fwd_ok, detect_ok) ==
  [pc |-> "start", self |-> self, text |-> text, act |-> act,
   fwd_ok |-> fwd_ok, detect_ok |-> detect_ok,
   tokens |-> <<>>, layer_attentions |-> <<>>, head_types |-> <<>>,
   layer_idx |-> 0, head |-> 0, src_idx |-> 0, dest_idx |-> 0,
   attention_patterns |-> <<>>, ret |-> <<>>]

NoCall == [pc |-> "none"]

\* Whether the four nested for loops run their body at all.
LoopsHaveBody(c, tokens, layer_attentions) ==
  Dim(layer_attentions) > 0 /\ c.self.n_heads > 0 /\ Len(tokens) > 0

\* result = self.get_attention_patterns(text); tokens, layer_attentions;
\* attention_patterns = []
process_text_begin(rv, c) ==
  LET result == get_attention_patterns(rv, c.self, c.text, c.act, c.fwd_ok, c.detect_ok)
  IN  IF result.raised THEN [c EXCEPT !.pc = "raised"]
      ELSE [c EXCEPT !.tokens = result.tokens,
                     !.layer_attentions = result.layerAttentions,
                     !.head_types = result.headTypes,
                     !.pc = IF LoopsHaveBody(c, result.tokens, result.layerAttentions)
                            THEN "loop" ELSE "return"]

\* The loop nest: for layer_data / for head / for src_idx / for dest_idx.
\* The indices of the body's next run, or "return" when the loops are done.
NextIter_DestOuter(c) ==
  LET n == Len(c.tokens)
  IN  IF c.src_idx + 1 < n THEN [c EXCEPT !.src_idx = @ + 1]
      ELSE IF c.dest_idx + 1 < n THEN [c EXCEPT !.dest_idx = @ + 1, !.src_idx = 0]
      ELSE IF c.head + 1 < c.self.n_heads
        THEN [c EXCEPT !.head = @ + 1, !.src_idx = 0, !.dest_idx = 0]
      ELSE IF c.layer_idx + 1 < Dim(c.layer_attentions)
        THEN [c EXCEPT !.layer_idx = @ + 1, !.head = 0, !.src_idx = 0, !.dest_idx = 0]
      ELSE [c EXCEPT !.pc = "return"]

NextIter(c) ==
  LET n == Len(c.tokens)
  IN  IF c.dest_idx + 1 < n THEN [c EXCEPT !.dest_idx = @ + 1]
      ELSE IF c.src_idx + 1 < n THEN [c EXCEPT !.src_idx = @ + 1, !.dest_idx = 0]
      ELSE IF c.head + 1 < c.self.n_heads
        THEN [c EXCEPT !.head = @ + 1, !.src_idx = 0, !.dest_idx = 0]
      ELSE IF c.layer_idx + 1 < Dim(c.layer_attentions)
        THEN [c EXCEPT !.layer_idx = @ + 1, !.head = 0, !.src_idx = 0, !.dest_idx = 0]
      ELSE [c EXCEPT !.pc = "return"]

\* The weight of the edge (src_idx, dest_idx) of one head.
\* 20250309130918: float(head_pattern[dest_idx, src_idx])
\* 20250308202556: head_weights[src_idx * len(tokens) + dest_idx]
EdgeWeight(rv, c, heads_item) ==
  IF rv = "20250309130918"
  THEN heads_item[c.dest_idx][c.src_idx]
  ELSE heads_item[c.src_idx * Len(c.tokens) + c.dest_idx]

\* "headType": layer_data["heads"][head]["type"] of revision 20250309130918:
\* layer_data["heads"][head] is the head's 2-D ndarray, and an ndarray indexed
\* by a string raises IndexError.  Revision 20250308202556 has no such key.
HeadTypeLookupRaises(rv, heads_item) == rv = "20250309130918"

\* One run of the loop body: the dict is built and appended, or building it
\* raises and process_text is left by the exception.
process_text_body(rv, c) ==
  LET layer_data == c.layer_attentions[c.layer_idx]
      layer == layer_data.layer
      heads_item == layer_data.heads[c.head]
      weight == EdgeWeight(rv, c, heads_item)
      edge == [sourceLayer |-> layer,
               sourceToken |-> c.src_idx,
               destLayer |-> layer + 1,
               destToken |-> c.dest_idx,
               weight |-> weight,
               head |-> c.head]
  IN  IF HeadTypeLookupRaises(rv, heads_item)
      THEN [c EXCEPT !.pc = "raised"]
      ELSE NextIter([c EXCEPT !.attention_patterns = Append(@, edge)])

\* return {"numLayers": self.n_layers + 1, "numTokens": len(tokens), ...}
process_text_return(c) ==
  [c EXCEPT !.pc = "returned",
            !.ret = [numLayers |-> c.self.n_layers + 1,
                     numTokens |-> Len(c.tokens),
                     numHeads |-> c.self.n_heads,
                     tokens |-> c.tokens,
                     attentionPatterns |-> c.attention_patterns]]

CallEnded(c) == c.pc \in {"returned", "raised"}

process_text_step(rv, c) ==
  CASE c.pc = "start" -> process_text_begin(rv, c)
    [] c.pc = "loop" -> process_text_body(rv, c)
    [] c.pc = "return" -> process_text_return(c)
    [] OTHER -> c

\* The whole call, as the /process handler makes it.
RECURSIVE process_text(_, _)
process_text(rv, c) ==
  IF CallEnded(c) THEN c ELSE process_text(rv, process_text_step(rv, c))

\* ------------------------------------------------------------ api.py
\* AVAILABLE_MODELS of backend/attention/model.py (the revision api.py imports).
AVAILABLE_MODELS == {"gpt2-small", "pythia-2.8b"}

\* default_model_name = "gpt2-small"
default_model_name == "gpt2-small"

\* The model_name values a TextRequest may carry.
ModelNames == AVAILABLE_MODELS \cup {"not-a-model"}

Requests == 1..MaxRequests

\* model.cfg.n_layers / n_heads of the pretrained model, scaled down.
ModelConfig(model_name) ==
  IF model_name = "gpt2-small"
  THEN [n_layers |-> 1, n_heads |-> 1]
  ELSE [n_layers |-> MaxLayers, n_heads |-> MaxHeads]

\* AttentionPatternExtractor(model_name) when from_pretrained returns; id is
\* the object's identity (the serial number of its construction).
NewExtractor(model_name, id) ==
  [model_name |-> model_name,
   n_layers |-> ModelConfig(model_name).n_layers,
   n_heads |-> ModelConfig(model_name).n_heads,
   id |-> id]

VARIABLES
  rev,             \* the revision of model.py that is imported
  call,            \* the process_text call of the extraction specification
  model_registry,  \* api.py: model_registry, model name -> extractor
  pc,              \* where each /process request is
  request,         \* each request's TextRequest (its model_name)
  response,        \* what each request was answered
  running,         \* the request the event loop is running, 0 when idle
  instances,       \* extractor objects constructed so far
  ctor_calls,      \* per model name, calls of AttentionPatternExtractor(name)
  stores,          \* per model name, assignments model_registry[name] = ...
  outcome          \* per request: the instance used and how process_text ended

vars == <<rev, call, model_registry, pc, request, response, running,
          instances, ctor_calls, stores, outcome>>

apiVars == <<model_registry, pc, request, response, running,
             instances, ctor_calls, stores, outcome>>

NoBody ==
  [numLayers |-> 0, numTokens |-> 0, numHeads |-> 0, nPatterns |-> 0,
   model_name |-> ""]

NoResponse == [status |-> 0, detail |-> "", body |-> NoBody]

NoOutcome == [instance |-> 0, ended |-> "none"]

\* model_registry = {}; model_registry["gpt2-small"] = AttentionPatternExtractor(...)
\* at import.  When that constructor raises, the module re-raises and no
\* request is ever served.
InitialModels_All == AVAILABLE_MODELS

InitialModels == {default_model_name}

InitApi ==
  /\ model_registry = [m \in InitialModels |-> NewExtractor(m, 1)]
  /\ pc = [r \in Requests |-> "new"]
  /\ request = [r \in Requests |-> [model_name |-> ""]]
  /\ response = [r \in Requests |-> NoResponse]
  /\ running = 0
  /\ instances = 1
  /\ ctor_calls = [m \in ModelNames |-> IF m \in InitialModels THEN 1 ELSE 0]
  /\ stores = [m \in ModelNames |-> IF m \in InitialModels THEN 1 ELSE 0]
  /\ outcome = [r \in Requests |-> NoOutcome]

Init ==
  /\ rev \in Revisions
  /\ call = NoCall
  /\ InitApi

\* async def process_text has no await in its body: once the event loop has
\* started a request's handler it runs it to its return or raise, and starts
\* another only then.
LoopIdle_Threaded == TRUE

LoopIdle == running = 0

\* model_name not in AVAILABLE_MODELS
Supported_Always(model_name) == TRUE

Supported(model_name) == model_name \in AVAILABLE_MODELS

\* model_name not in model_registry
IsLoaded_Never(model_name) == FALSE

IsLoaded(model_name) == model_name \in DOMAIN model_registry

\* model_registry[model_name] = extractor
Store(reg, model_name, extractor) ==
  [m \in DOMAIN reg \cup {model_name} |-> IF m = model_name THEN extractor ELSE reg[m]]

\* The registry after AttentionPatternExtractor(model_name) raised: the
\* assignment of line 69 never happens.
RegistryAfterFailedLoad_Cached(reg, model_name) ==
  Store(reg, model_name, NewExtractor(model_name, 0))

RegistryAfterFailedLoad(reg, model_name) == reg

Finish(r, resp) ==
  /\ response' = [response EXCEPT ![r] = resp]
  /\ pc' = [pc EXCEPT ![r] = "done"]
  /\ running' = 0

\* A client posts a request; requests are numbered in the order they arrive.
Arrive(r) ==
  /\ pc[r] = "new"
  /\ IF r = 1 THEN TRUE ELSE pc[r - 1] # "new"
  /\ \E m \in ModelNames : request' = [request EXCEPT ![r] = [model_name |-> m]]
  /\ pc' = [pc EXCEPT ![r] = "pending"]
  /\ UNCHANGED <<rev, call, model_registry, response, running, instances,
                 ctor_calls, stores, outcome>>

\* The event loop starts the handler of a pending request.
Dispatch(r) ==
  /\ pc[r] = "pending"
  /\ LoopIdle
  /\ running' = r
  /\ pc' = [pc EXCEPT ![r] = "validate"]
  /\ UNCHANGED <<rev, call, model_registry, request, response, instances,
                 ctor_calls, stores, outcome>>

\* if model_name not in AVAILABLE_MODELS: raise HTTPException(400, ...)
Validate(r) ==
  /\ pc[r] = "validate"
  /\ IF Supported(request[r].model_name)
     THEN /\ pc' = [pc EXCEPT ![r] = "lookup"]
          /\ UNCHANGED <<response, running>>
     ELSE Finish(r, [status |-> 400, detail |-> "not supported", body |-> NoBody])
  /\ UNCHANGED <<rev, call, model_registry, request, instances, ctor_calls,
                 stores, outcome>>

\* if model_name not in model_registry:
Lookup(r) ==
  /\ pc[r] = "lookup"
  /\ pc' = [pc EXCEPT ![r] = IF IsLoaded(request[r].model_name) THEN "process" ELSE "load"]
  /\ UNCHANGED <<rev, call, model_registry, request, response, running,
                 instances, ctor_calls, stores, outcome>>

\* AttentionPatternExtractor(model_name) is called.
LoadCall(r) ==
  /\ pc[r] = "load"
  /\ ctor_calls' = [ctor_calls EXCEPT ![request[r].model_name] = @ + 1]
  /\ pc' = [pc EXCEPT ![r] = "loading"]
  /\ UNCHANGED <<rev, call, model_registry, request, response, running,
                 instances, stores, outcome>>

\* The constructor returns and model_registry[model_name] is assigned.
LoadReturn(r) ==
  LET m == request[r].model_name
  IN  /\ pc[r] = "loading"
      /\ instances' = instances + 1
      /\ model_registry' = Store(model_registry, m, NewExtractor(m, instances + 1))
      /\ stores' = [stores EXCEPT ![m] = @ + 1]
      /\ pc' = [pc EXCEPT ![r] = "process"]
      /\ UNCHANGED <<rev, call, request, response, running, ctor_calls, outcome>>

\* The constructor raises: except Exception -> HTTPException(500, ...)
LoadRaise(r) ==
  LET m == request[r].model_name
  IN  /\ pc[r] = "loading"
      /\ model_registry' = RegistryAfterFailedLoad(model_registry, m)
      /\ Finish(r, [status |-> 500, detail |-> "Failed to load model", body |-> NoBody])
      /\ UNCHANGED <<rev, call, request, instances, ctor_calls, stores, outcome>>

\* What the handler keeps of an ended process_text call: how it ended and,
\* of a returned envelope, the counts (nPatterns is
\* len(result["attentionPatterns"])).
NoEnvelope == [numLayers |-> 0, numTokens |-> 0, numHeads |-> 0, nPatterns |-> 0]

CallSummary(c) ==
  [ended |-> c.pc,
   ret |-> IF c.pc = "returned"
           THEN [numLayers |-> c.ret.numLayers, numTokens |-> c.ret.numTokens,
                 numHeads |-> c.ret.numHeads,
                 nPatterns |-> Len(c.ret.attentionPatterns)]
           ELSE NoEnvelope]

\* Every way a process_text call of a request can end, computed once: for
\* each revision and model, the ended calls over all texts, activations and
\* failures of the forward pass and of detect_head.
EndedCalls ==
  [rv \in Revisions, model_name \in ModelNames |->
     {CallSummary(process_text(rv, NewCall(ModelConfig(model_name), text, act,
                                           fwd_ok, detect_ok))) :
        text \in Texts, act \in Activations, fwd_ok \in BOOLEAN, detect_ok \in BOOLEAN}]
  @@ <<>>

\* return result (with result["model_name"] = model_name)
SuccessResponse(model_name, ret) ==
  [status |-> 200, detail |-> "",
   body |-> [numLayers |-> ret.numLayers, numTokens |-> ret.numTokens,
             numHeads |-> ret.numHeads, nPatterns |-> ret.nPatterns,
             model_name |-> model_name]]

\* except Exception as e: raise HTTPException(status_code=500, detail=str(e))
ExtractionErrorResponse_EmptySuccess(model_name) ==
  [status |-> 200, detail |-> "", body |-> [NoBody EXCEPT !.model_name = model_name]]

ExtractionErrorResponse(model_name) ==
  [status |-> 500, detail |-> "extraction failed", body |-> NoBody]

\* result = model_registry[model_name].process_text(request.text)
Process(r) ==
  LET m == request[r].model_name
      extractor == model_registry[m]
  IN  /\ pc[r] = "process"
      /\ m \in DOMAIN model_registry
      /\ \E c \in EndedCalls[rev, extractor.model_name] :
           /\ outcome' = [outcome EXCEPT ![r] = [instance |-> extractor.id, ended |-> c.ended]]
           /\ Finish(r, IF c.ended = "returned"
                        THEN SuccessResponse(m, c.ret)
                        ELSE ExtractionErrorResponse(m))
      /\ UNCHANGED <<rev, call, model_registry, request, instances, ctor_calls, stores>>

Next ==
  \E r \in Requests :
    \/ Arrive(r)
    \/ Dispatch(r)
    \/ Validate(r)
    \/ Lookup(r)
    \/ LoadCall(r)
    \/ LoadReturn(r)
    \/ LoadRaise(r)
    \/ Process(r)

Spec == Init /\ [][Next]_vars

\* ------------------------------------ one process_text call, step by step
InitExtract ==
  /\ rev \in Revisions
  /\ \E L \in 1..MaxLayers, H \in 1..MaxHeads, text \in Texts, act \in Activations,
        fwd_ok \in BOOLEAN, detect_ok \in BOOLEAN :
       call = NewCall([n_layers |-> L, n_heads |-> H], text, act, fwd_ok, detect_ok)
  /\ InitApi

Begin ==
  /\ call.pc = "start"
  /\ call' = process_text_begin(rev, call)
  /\ UNCHANGED <<rev, apiVars>>

Body ==
  /\ call.pc = "loop"
  /\ call' = process_text_body(rev, call)
  /\ UNCHANGED <<rev, apiVars>>

Return ==
  /\ call.pc = "return"
  /\ call' = process_text_return(call)
  /\ UNCHANGED <<rev, apiVars>>

NextExtract == Begin \/ Body \/ Return

SpecExtract == InitExtract /\ [][NextExtract]_vars

\* ======================================================= the extractor
\* get_attention_patterns of revision 20250309130918 has returned in this call.
GotPatterns ==
  /\ rev = "20250309130918"
  /\ call.pc \in {"loop", "return", "returned", "raised"}
  /\ call.fwd_ok /\ call.detect_ok

\* The quadruple an edge stands for.
Quad(e) == <<e.sourceLayer, e.head, e.sourceToken, e.destToken>>

LexLess(a, b) ==
  \E k \in 1..4 : a[k] < b[k] /\ \A j \in 1..(k - 1) : a[j] = b[j]

HookMasksFuture ==
  GotPatterns =>
    \A l \in DOMAIN call.layer_attentions :
      \A h \in DOMAIN call.layer_attentions[l].heads :
        LET m == call.layer_attentions[l].heads[h]
        IN  \A d \in DOMAIN m : \A src \in DOMAIN m[d] : src > d => m[d][src] = 0

\* No call of revision 20250309130918 ever appends an edge.
NoEdgeEmitted0309 ==
  rev = "20250309130918" => call.attention_patterns = <<>>

\* C2 as claimed: a call on a single-token text (after trimming) does not
\* raise and returns exactly numHeads x (numLayers - 1) edges.
C2_SingleTokenEdges ==
  (rev = "20250309130918" /\ CallEnded(call) /\ call.fwd_ok /\ call.detect_ok
     /\ Len(call.text) = 1)
  => /\ call.pc = "returned"
     /\ Len(call.ret.attentionPatterns) = call.ret.numHeads * (call.ret.numLayers - 1)

\* C8: the edge sequence a process_text call returns is strictly ascending in
\* the lexicographic order of (layer, head, sourceToken, destToken), and the
\* quadruples it holds are exactly all of
\* layers x heads x token indices x token indices: each appears exactly once.
C8_EdgeOrder ==
  call.pc = "returned" =>
    LET ap == call.ret.attentionPatterns
        n == call.ret.numTokens
    IN  /\ \A i \in 1..Len(ap) : \A j \in 1..Len(ap) :
             i < j => LexLess(Quad(ap[i]), Quad(ap[j]))
        /\ {Quad(ap[i]) : i \in 1..Len(ap)} =
             Range0(call.ret.numLayers - 1) \X Range0(call.ret.numHeads)
               \X Range0(n) \X Range0(n)

\* A returned call in which each of the four loops ran more than once.
C8_Witness ==
  /\ call.pc = "returned"
  /\ call.ret.numTokens >= 2 /\ call.ret.numHeads >= 2 /\ call.ret.numLayers >= 3
  /\ Len(call.ret.attentionPatterns) >= 16

\* C9: once get_attention_patterns (revision 20250309130918) has returned, the
\* token list is the raw tokenization without its first, boundary, token (so
\* no token of the text is dropped and the boundary token is not in it), every
\* per-head matrix is square of size len(tokens), and row i / column j of it
\* hold what the captured matrix held for tokens[i] and tokens[j], that is at
\* raw row i + 1 and raw column j + 1 (zero above the diagonal); a returned
\* envelope reports numTokens = len(tokens).
C9_TrimAligned ==
  GotPatterns =>
    LET n == Len(call.tokens)
        S == Len(call.text) + 1
    IN  /\ call.tokens = call.text
        /\ \A i \in 1..n : call.tokens[i] # BOS
        /\ n = S - 1
        /\ DOMAIN call.layer_attentions = Range0(call.self.n_layers)
        /\ \A l \in DOMAIN call.layer_attentions :
             /\ DOMAIN call.layer_attentions[l].heads = Range0(call.self.n_heads)
             /\ \A h \in DOMAIN call.layer_attentions[l].heads :
                  LET m == call.layer_attentions[l].heads[h]
                      raw == Activation(call.act, S, call.self.n_heads, l)[h]
                  IN  /\ DOMAIN m = Range0(n)
                      /\ \A i \in DOMAIN m :
                           /\ DOMAIN m[i] = Range0(n)
                           /\ \A j \in DOMAIN m[i] :
                                m[i][j] = IF j <= i THEN raw[i + 1][j + 1] ELSE 0
        /\ call.pc = "returned" =>
             /\ call.ret.numTokens = Len(call.ret.tokens)
             /\ call.ret.tokens = call.text

\* get_attention_patterns has returned for a text of two tokens whose captured
\* attention was not masked.
C9_Witness ==
  /\ GotPatterns
  /\ Len(call.text) = 2 /\ call.text[1] # call.text[2]
  /\ call.act = "dense"
  /\ call.self.n_heads >= 2

\* ===================================================== the /process API
\* Request r's handler has been started by the event loop.
Started(r) == pc[r] \notin {"new", "pending"}

\* Request r's handler takes a step.
Steps(r) == Started(r) /\ pc'[r] # pc[r]

\* C3: every handler step of a request whose model_name is not in
\* AVAILABLE_MODELS ends the request with status 400, calls no constructor
\* and leaves model_registry as it was.
C3_UnsupportedRejected ==
  [][\A r \in Requests :
       (Steps(r) /\ request[r].model_name \notin AVAILABLE_MODELS)
         => /\ pc'[r] = "done"
            /\ response'[r].status = 400
            /\ response'[r].body = NoBody
            /\ model_registry' = model_registry
            /\ ctor_calls' = ctor_calls
            /\ instances' = instances]_vars

\* An unsupported request was answered 400 while the registry held a model
\* loaded on demand.
C3_Witness ==
  \E r \in Requests :
    /\ pc[r] = "done"
    /\ request[r].model_name = "not-a-model"
    /\ response[r].status = 400
    /\ "pythia-2.8b" \in DOMAIN model_registry

\* C4: load-once caching.  Each name is stored in model_registry at most once
\* and is in it exactly when it was stored; a step that changes the registry
\* is the return of one constructor call of a request for a name not yet in
\* it, and adds that one entry; an entry is never removed or replaced; no
\* constructor is called for a name that is in the registry; and every request
\* that reached process_text used the instance the registry holds for its
\* name.
C4_LoadOnce ==
  /\ [](\A m \in ModelNames :
          /\ stores[m] <= 1
          /\ (m \in DOMAIN model_registry <=> stores[m] = 1))
  /\ [](\A r \in Requests :
          outcome[r].instance # 0 =>
            /\ request[r].model_name \in DOMAIN model_registry
            /\ model_registry[request[r].model_name].id = outcome[r].instance)
  /\ [][/\ \A m \in DOMAIN model_registry :
             m \in DOMAIN model_registry' /\ model_registry'[m] = model_registry[m]
        /\ \A m \in ModelNames :
             ctor_calls'[m] # ctor_calls[m] => m \notin DOMAIN model_registry
        /\ model_registry' # model_registry =>
             \E r \in Requests :
               /\ pc[r] = "loading" /\ pc'[r] = "process"
               /\ request[r].model_name \notin DOMAIN model_registry
               /\ DOMAIN model_registry' =
                    DOMAIN model_registry \cup {request[r].model_name}
               /\ instances' = instances + 1
               /\ stores'[request[r].model_name] = 1]_vars

\* Two requests for pythia-2.8b were processed by the same instance, built by
\* the one constructor call of the first.
C4_Witness ==
  \E r1 \in Requests : \E r2 \in Requests :
    /\ r1 < r2
    /\ request[r1].model_name = "pythia-2.8b" /\ request[r2].model_name = "pythia-2.8b"
    /\ pc[r1] = "done" /\ pc[r2] = "done"
    /\ outcome[r1].instance # 0 /\ outcome[r2].instance = outcome[r1].instance
    /\ ctor_calls["pythia-2.8b"] = 1

\* C5: when the constructor raises, the request ends with status 500 and the
\* registry is as before, without an entry for the name; and a request that
\* finds its (supported) name missing from the registry goes on to call the
\* constructor, whatever happened to earlier loads of that name.
C5_FailedLoadNotCached ==
  [][\A r \in Requests :
       /\ (pc[r] = "loading" /\ pc'[r] = "done")
            => /\ response'[r].status = 500
               /\ response'[r].body = NoBody
               /\ model_registry' = model_registry
               /\ request[r].model_name \notin DOMAIN model_registry'
       /\ (pc[r] = "lookup" /\ pc'[r] # pc[r]
             /\ request[r].model_name \notin DOMAIN model_registry)
            => pc'[r] = "load"
       /\ (pc[r] = "load" /\ pc'[r] # pc[r])
            => /\ pc'[r] = "loading"
               /\ ctor_calls'[request[r].model_name] =
                    ctor_calls[request[r].model_name] + 1]_vars

\* A load of pythia-2.8b failed with 500, and a later request for it called
\* the constructor again and went on to process_text.
C5_Witness ==
  \E r1 \in Requests : \E r2 \in Requests :
    /\ r1 < r2
    /\ request[r1].model_name = "pythia-2.8b" /\ request[r2].model_name = "pythia-2.8b"
    /\ pc[r1] = "done" /\ response[r1].status = 500
    /\ response[r1].detail = "Failed to load model"
    /\ ctor_calls["pythia-2.8b"] = 2
    /\ outcome[r2].instance # 0

\* Request r is in the load section (lines 67-73) for its name.
InLoad(r) == pc[r] \in {"load", "loading"}

\* C6: no two requests are in the load section for the same model name at the
\* same time, and the registry slot of a name is written at most once.
C6_LoadMutex ==
  /\ \A r1 \in Requests : \A r2 \in Requests :
       (r1 # r2 /\ InLoad(r1) /\ InLoad(r2))
         => request[r1].model_name # request[r2].model_name
  /\ \A m \in ModelNames : stores[m] <= 1 /\ ctor_calls[m] >= stores[m]

\* Two requests for the not yet loaded pythia-2.8b are in flight together:
\* one is inside the constructor, the other waits for the event loop.
C6_Witness ==
  \E r1 \in Requests : \E r2 \in Requests :
    /\ r1 # r2
    /\ request[r1].model_name = "pythia-2.8b" /\ request[r2].model_name = "pythia-2.8b"
    /\ pc[r1] = "loading" /\ pc[r2] = "pending"
    /\ "pythia-2.8b" \notin DOMAIN model_registry

\* C7 as claimed: every name in loaded_models has been named by an earlier
\* /process request.
C7_AllLoadedWereRequested ==
  \A m \in DOMAIN model_registry :
    \E r \in Requests : pc[r] # "new" /\ request[r].model_name = m

\* C7 as amended: the default model gpt2-small is in loaded_models from
\* import on, before any request; every other name in loaded_models is the
\* name of a request whose handler has run the load.
C7_LazyExceptDefault ==
  /\ default_model_name \in DOMAIN model_registry
  /\ \A m \in DOMAIN model_registry :
       m # default_model_name =>
         \E r \in Requests : Started(r) /\ request[r].model_name = m

\* pythia-2.8b has been loaded on demand and gpt2-small was never requested.
C7_Witness ==
  /\ "pythia-2.8b" \in DOMAIN model_registry
  /\ \A r \in Requests : request[r].model_name # default_model_name

\* C10: a request whose process_text call raised is answered 500 without any
\* envelope, and the step that answers it leaves model_registry, and with it
\* every cached instance, unchanged.
C10_AllOrNothing ==
  /\ [](\A r \in Requests :
          outcome[r].ended = "raised" =>
            /\ pc[r] = "done"
            /\ response[r].status = 500
            /\ response[r].body = NoBody)
  /\ [](\A r \in Requests :
          response[r].status = 200 => outcome[r].ended = "returned")
  /\ [][\A r \in Requests :
          (pc[r] = "process" /\ pc'[r] # pc[r])
            => /\ model_registry' = model_registry
               /\ instances' = instances]_vars

\* Extraction failed for a request, and a later request for the same model
\* was served by the same cached instance.
C10_Witness ==
  \E r1 \in Requests : \E r2 \in Requests :
    /\ r1 < r2
    /\ request[r1].model_name = request[r2].model_name
    /\ outcome[r1].ended = "raised" /\ response[r1].status = 500
    /\ response[r2].status = 200
    /\ outcome[r2].instance = outcome[r1].instance

\* ============================================ index convention and roles
\* The causally masked attention of layer l, head h, aligned with the token
\* list the call returns: row d / column src hold what the captured matrix
\* held for tokens[d] and tokens[src], zero where src > d.
MaskedMatrixEntry(c, l, h, d, src) ==
  LET S == Len(c.text) + 1
      off == S - Len(c.tokens)
      raw == Activation(c.act, S, c.self.n_heads, l)[h]
  IN  IF src <= d THEN raw[d + off][src + off] ELSE 0

\* C11 as claimed: every emitted edge (layer, head, sourceToken s, destToken d)
\* carries the entry [d, s] (row = destination, column = source) of the
\* causally masked attention matrix of that layer and head.
C11_WeightIsDestSource ==
  \A i \in 1..Len(call.attention_patterns) :
    LET e == call.attention_patterns[i]
    IN  e.weight = MaskedMatrixEntry(call, e.sourceLayer, e.head,
                                     e.destToken, e.sourceToken)

\* C12 as claimed: when the head roles were computed (revision
\* 20250309130918, forward pass and detect_head succeeding) and the text has
\* at least one token, process_text completes, and every edge of layer l and
\* head h carries the role that head_types stores for (l, h).
C12_RoleFromMapping ==
  (rev = "20250309130918" /\ CallEnded(call) /\ call.fwd_ok /\ call.detect_ok
     /\ Len(call.text) >= 1)
  => /\ call.pc = "returned"
     /\ Len(call.ret.attentionPatterns) > 0
     /\ \A i \in 1..Len(call.ret.attentionPatterns) :
          LET e == call.ret.attentionPatterns[i]
          IN  /\ "headType" \in DOMAIN e
              /\ e.headType = call.head_types[<<e.sourceLayer, e.head>>]

====
